---------------------------- MODULE Spec2Model ----------------------------
(***************************************************************************)
(* A model of the in-memory block chain of types.ts (ArrayBlockChain and   *)
(* BlockChainBlock) and of the way index.ts drives it.                     *)
(*                                                                         *)
(* Objects live in heaps and are named by their position in the heap:      *)
(*   heap    the BlockChainBlock objects (a block holds a REFERENCE to its *)
(*           predecessor, so hash and previousHash are computed by walking *)
(*           the references, as the getters do);                           *)
(*   arrays  the JavaScript arrays (#blocks of a chain, copyOfBlocks of an *)
(*           iterator), so that copying and aliasing are different things. *)
(* Strings are sequences of character codes, buffers sequences of bytes.   *)
(***************************************************************************)
EXTENDS Integers, Sequences, FiniteSets, TLC

(***************************************************************************)
(* Bounds of the model.                                                    *)
(***************************************************************************)
\* The chains, stored blocks and iterators that may exist together.
MaxObjects == 4
\* The fulfilled promises that may wait for their callers together.
MaxPending == 2
\* The next() calls made on an iterator after the one that reported done.
MaxOverrun == 0
\* The last instant of the wall clock (ms).
MaxNow == 1500
\* The next() calls made on one iterator by a caller that goes on calling
\* after done has been reported.
MaxCursor == 3

\* The steps by which the wall clock advances between two operations (ms).
ClockSteps == {1500}

\* The payloads a caller appends, as UTF-8 bytes: '', 't' (a group of one
\* byte) and 'test1' (a full group and a group of two bytes).
Payloads == {<< >>, <<116>>, <<116, 101, 115, 116, 49>>}

\* The values a caller may write to the public field `index` of a block.
IndexWrites == {7}

\* The blocks constructed together when the constructor is called directly,
\* and the arguments it is called with.
MaxConstructed == 2
ConstructIndexes == {0, 1}
ConstructPayloads == {<< >>, <<116>>}
ConstructInstants == {0, 500, 1500}

(***************************************************************************)
(* Strings and buffers.                                                    *)
(***************************************************************************)
\* `undefined`, as the value of a missing reference.
undefined == 0

\* '\n', '=' and '-' as character codes.
NewLine == 10
PadChar == 61
MinusSign == 45

\* The Base64 alphabet of Buffer's 'base64' encoding: A-Z a-z 0-9 + /
Base64Char(sextet) ==
    IF sextet < 26 THEN 65 + sextet
    ELSE IF sextet < 52 THEN 97 + (sextet - 26)
    ELSE IF sextet < 62 THEN 48 + (sextet - 52)
    ELSE IF sextet = 62 THEN 43 ELSE 47

IsBase64Char(char) ==
    \/ char >= 65 /\ char <= 90
    \/ char >= 97 /\ char <= 122
    \/ char >= 48 /\ char <= 57
    \/ char = 43
    \/ char = 47

Base64Sextet(char) ==
    IF char >= 65 /\ char <= 90 THEN char - 65
    ELSE IF char >= 97 /\ char <= 122 THEN char - 97 + 26
    ELSE IF char >= 48 /\ char <= 57 THEN char - 48 + 52
    ELSE IF char = 43 THEN 62 ELSE 63

\* buffer.toString('base64'): three bytes give four characters, a last
\* group of one or two bytes is padded with '='.
RECURSIVE Base64Encode(_)
Base64Encode(bytes) ==
    IF Len(bytes) = 0 THEN << >>
    ELSE IF Len(bytes) = 1 THEN
        << Base64Char(bytes[1] \div 4),
           Base64Char((bytes[1] % 4) * 16),
           PadChar, PadChar >>
    ELSE IF Len(bytes) = 2 THEN
        << Base64Char(bytes[1] \div 4),
           Base64Char((bytes[1] % 4) * 16 + (bytes[2] \div 16)),
           Base64Char((bytes[2] % 16) * 4),
           PadChar >>
    ELSE
        << Base64Char(bytes[1] \div 4),
           Base64Char((bytes[1] % 4) * 16 + (bytes[2] \div 16)),
           Base64Char((bytes[2] % 16) * 4 + (bytes[3] \div 64)),
           Base64Char(bytes[3] % 64) >>
        \o Base64Encode(SubSeq(bytes, 4, Len(bytes)))

\* The characters of a Base64 text that carry data: the decoder stops at
\* the first '=' and skips what is not in the alphabet.
RECURSIVE Base64Payload(_)
Base64Payload(text) ==
    IF Len(text) = 0 \/ text[1] = PadChar THEN << >>
    ELSE IF IsBase64Char(text[1])
         THEN <<Base64Sextet(text[1])>> \o Base64Payload(Tail(text))
         ELSE Base64Payload(Tail(text))

\* Four sextets give three bytes; two left over give one byte, three give
\* two bytes, a single one gives none.
RECURSIVE SextetsToBytes(_)
SextetsToBytes(s) ==
    IF Len(s) < 2 THEN << >>
    ELSE IF Len(s) = 2 THEN
        << s[1] * 4 + (s[2] \div 16) >>
    ELSE IF Len(s) = 3 THEN
        << s[1] * 4 + (s[2] \div 16),
           (s[2] % 16) * 16 + (s[3] \div 4) >>
    ELSE
        << s[1] * 4 + (s[2] \div 16),
           (s[2] % 16) * 16 + (s[3] \div 4),
           (s[3] % 4) * 64 + s[4] >>
        \o SextetsToBytes(SubSeq(s, 5, Len(s)))

\* A decoder that drops a last group of fewer than four characters.
Base64DecodeWholeGroups(text) ==
    LET s == Base64Payload(text)
    IN  SextetsToBytes(SubSeq(s, 1, 4 * (Len(s) \div 4)))

\* Buffer.from(text, 'base64')
Base64Decode(text) == SextetsToBytes(Base64Payload(text))

\* The decimal digits of a natural number.
RECURSIVE Digits(_)
Digits(n) ==
    IF n < 10 THEN <<48 + n>>
    ELSE Digits(n \div 10) \o <<48 + (n % 10)>>

\* `${n}` for an integer n.
NumberToString(n) ==
    IF n < 0 THEN <<MinusSign>> \o Digits(0 - n) ELSE Digits(n)

\* Date.UTC(year, month, date, hours, minutes, seconds) of the instant
\* `ms` (milliseconds since the epoch): the milliseconds are left out.
UtcNow(ms) == (ms \div 1000) * 1000


(***************************************************************************)
(* The state.                                                              *)
(***************************************************************************)
VARIABLES
    now,        \* the wall clock, in milliseconds since the epoch
    heap,       \* the BlockChainBlock objects: #data, #previousBlock,
                \* #timestamp and the public field index
    arrays,     \* the array objects
    chains,     \* the ArrayBlockChain objects: #blocks, #genesisBlock
    iterators,  \* the iterator objects: copyOfBlocks and cursorIndex
    pending,    \* the fulfilled promises whose awaiting caller has not
                \* run yet, oldest first (the microtask queue)
    addLog,     \* history: the addBlock calls made so far
    iterLog,    \* history: per iterator, where it started and what its
                \* next() calls returned
    written,    \* history: the blocks whose index a caller has overwritten
    created     \* history: per block, the instant (ms) it was constructed at

vars == <<now, heap, arrays, chains, iterators, pending, addLog, iterLog, written,
          created>>

(***************************************************************************)
(* BlockChainBlock.                                                        *)
(***************************************************************************)
\* new BlockChainBlock(index, data, previousBlock, now)
BlockChainBlock(idx, buffer, prev, nowMs) ==
    [index |-> idx, data |-> buffer, previousBlock |-> prev,
     timestamp |-> UtcNow(nowMs)]

\* get timestamp()
timestamp(h, b) == h[b].timestamp

\* get data()
data(h, b) == Base64Encode(h[b].data)

\* A hashed string that leaves the timestamp out.
HashInputNoTimestamp(idx, prevHash, ts, dat) ==
    NumberToString(idx) \o <<NewLine>> \o prevHash \o <<NewLine>> \o dat

\* The string that is hashed.
HashInput(idx, prevHash, ts, dat) ==
    NumberToString(idx) \o <<NewLine>> \o prevHash \o <<NewLine>>
        \o NumberToString(ts) \o <<NewLine>> \o dat

\* crypto.createHash('sha256').update(text).digest(): SHA-256 taken as
\* collision-free, a digest stands for the one text that has it.
Sha256(text) == text

\* The empty string whatever the text.
OrEmptyAlways(text) == << >>

\* text || '', for a string: the empty string is the falsy one
OrEmpty(text) == IF text = << >> THEN << >> ELSE text

RECURSIVE hash(_, _)
\* get previousHash(): this.#previousBlock?.hash || '', where ?. gives
\* undefined, which is falsy, when there is no previous block
previousHash(h, b) ==
    IF h[b].previousBlock = undefined THEN << >>
    ELSE OrEmpty(hash(h, h[b].previousBlock))

\* get hash()
hash(h, b) ==
    Base64Encode(
        Sha256(HashInput(h[b].index, previousHash(h, b), timestamp(h, b), data(h, b))))

(***************************************************************************)
(* ArrayBlockChain.                                                        *)
(***************************************************************************)
\* array[i], for a zero based i: undefined outside the array
ArrayGet(array, i) ==
    IF i >= 0 /\ i < Len(array) THEN array[i + 1] ELSE undefined

\* A getter that always answers the genesis block.
ChainPreviousBlockGenesis(c) == chains[c].genesisBlock

\* A getter that answers the first stored block, else the genesis block.
ChainPreviousBlockFirst(c) ==
    LET first == ArrayGet(arrays[chains[c].blocks], 0)
    IN  IF first = undefined THEN chains[c].genesisBlock ELSE first

\* get #previousBlock(): the last stored block, else the genesis block
ChainPreviousBlock(c) ==
    LET blocks == arrays[chains[c].blocks]
        last == ArrayGet(blocks, Len(blocks) - 1)
    IN  IF last = undefined THEN chains[c].genesisBlock ELSE last

\* A genesis block with the index of a real block.
NewGenesisBlockZero(nowMs) == BlockChainBlock(0, << >>, undefined, nowMs)

\* The genesis block the constructor of a chain makes.
NewGenesisBlock(nowMs) == BlockChainBlock(-1, << >>, undefined, nowMs)

\* An index that is not advanced.
NextIndexSame(prev) == heap[prev].index

\* previousBlock.index + 1
NextIndex(prev) == heap[prev].index + 1

\* array.unshift(b)
PushFront(array, b) == <<b>> \o array

\* array[array.length - 1] = b, on an array that is not empty
PushOver(array, b) ==
    IF Len(array) = 0 THEN <<b>> ELSE [array EXCEPT ![Len(array)] = b]

\* array.push(b)
Push(array, b) == Append(array, b)

\* One list for every chain: the array of the first chain.
SharedArray == IF Len(chains) = 0 THEN Len(arrays) + 1 ELSE chains[1].blocks

\* #blocks = []: the reference of a new, empty array object
NewArray == Len(arrays) + 1

\* A cursor that is read and not advanced.
NoIncrement(cursor) == cursor

\* cursorIndex++: the cursor after the call
PostIncrement(cursor) == cursor + 1

\* No copy: the reference of the array itself
SpreadAlias(ref) == ref

\* [...array]: the reference of the copy, a new array object
SpreadCopy(ref) == Len(arrays) + 1

\* done: currentIndex > copyOfBlocks.length
IsDoneLate(currentIndex, length) == currentIndex > length

\* done: currentIndex >= copyOfBlocks.length
IsDone(currentIndex, length) == currentIndex >= length

\* The blocks a chain stores, in order.
StoredBlocks(c) == arrays[chains[c].blocks]

\* The objects alive: chains (each with its genesis block), stored blocks
\* and iterators.
Objects == Len(heap) + Len(iterators)

(***************************************************************************)
(* The operations.                                                         *)
(***************************************************************************)
Init ==
    /\ now = 0
    /\ heap = << >>
    /\ arrays = << >>
    /\ chains = << >>
    /\ iterators = << >>
    /\ pending = << >>
    /\ addLog = << >>
    /\ iterLog = << >>
    /\ written = {}
    /\ created = << >>

\* Time passes between two operations.
Tick(d) ==
    /\ now + d <= MaxNow
    /\ now' = now + d
    /\ UNCHANGED <<heap, arrays, chains, iterators, pending, addLog, iterLog, written,
                   created>>

\* createNewBlockChain(): new ArrayBlockChain()
CreateNewBlockChain ==
    /\ Objects < MaxObjects
    /\ heap' = Append(heap, NewGenesisBlock(now))
    /\ created' = Append(created, now)
    /\ arrays' = Append(arrays, << >>)
    /\ chains' = Append(chains,
           [blocks |-> NewArray, genesisBlock |-> Len(heap) + 1])
    /\ UNCHANGED <<now, iterators, pending, addLog, iterLog, written>>

\* chain.addBlock(Buffer.from(payload).toString('base64')): nothing is
\* awaited in the body, so it runs to its end when it is called; what is
\* left for later is the caller's continuation on the returned promise.
AddBlock(c, payload) ==
    /\ Objects < MaxObjects
    /\ Len(pending) < MaxPending
    /\ LET text == Base64Encode(payload)
           previousBlock == ChainPreviousBlock(c)
           newBlock == Len(heap) + 1
       IN  /\ heap' = Append(heap,
                  BlockChainBlock(NextIndex(previousBlock), Base64Decode(text),
                                  previousBlock, now))
           /\ created' = Append(created, now)
           /\ arrays' = [arrays EXCEPT
                  ![chains[c].blocks] = Push(@, newBlock)]
           /\ pending' = Append(pending,
                  [call |-> "addBlock", target |-> c, done |-> FALSE,
                   value |-> newBlock])
           /\ addLog' = Append(addLog,
                  [chain |-> c, payload |-> payload, result |-> newBlock])
    /\ UNCHANGED <<now, chains, iterators, iterLog, written>>

\* chain[Symbol.asyncIterator]()
AsyncIterator(c) ==
    /\ Objects < MaxObjects
    /\ arrays' = Append(arrays, arrays[chains[c].blocks])
    /\ iterators' = Append(iterators,
           [copyOfBlocks |-> SpreadCopy(chains[c].blocks), cursorIndex |-> 0])
    /\ iterLog' = Append(iterLog,
           [chain |-> c,
            blocks |-> StoredBlocks(c),
            calls |-> Cardinality({n \in 1..Len(addLog) : addLog[n].chain = c}),
            results |-> << >>,
            received |-> << >>])
    /\ UNCHANGED <<now, heap, chains, pending, addLog, written, created>>

\* The body of iterator.next(): like that of addBlock, it runs when it is
\* called.
NextBody(i) ==
    /\ LET copyOfBlocks == arrays[iterators[i].copyOfBlocks]
           currentIndex == iterators[i].cursorIndex
           result == [done |-> IsDone(currentIndex, Len(copyOfBlocks)),
                      value |-> ArrayGet(copyOfBlocks, currentIndex)]
       IN  /\ iterators' = [iterators EXCEPT
                  ![i].cursorIndex = PostIncrement(currentIndex)]
           /\ pending' = Append(pending,
                  [call |-> "next", target |-> i, done |-> result.done,
                   value |-> result.value])
           /\ iterLog' = [iterLog EXCEPT ![i].results = Append(@, result)]
    /\ UNCHANGED <<now, heap, arrays, chains, addLog, written, created>>

\* iterator.next(), called until done has been reported (and MaxOverrun
\* times more).
IteratorNext(i) ==
    /\ Len(pending) < MaxPending
    /\ iterators[i].cursorIndex
           <= Len(arrays[iterators[i].copyOfBlocks]) + MaxOverrun
    /\ NextBody(i)

\* The caller awaiting the oldest fulfilled promise runs.
Await ==
    /\ Len(pending) > 0
    /\ pending' = Tail(pending)
    /\ iterLog' =
           IF pending[1].call = "next"
           THEN [iterLog EXCEPT ![pending[1].target].received =
                    Append(@, [done |-> pending[1].done, value |-> pending[1].value])]
           ELSE iterLog
    /\ UNCHANGED <<now, heap, arrays, chains, iterators, addLog, written, created>>

Next ==
    \/ \E d \in ClockSteps : Tick(d)
    \/ CreateNewBlockChain
    \/ \E c \in 1..Len(chains), payload \in Payloads : AddBlock(c, payload)
    \/ \E c \in 1..Len(chains) : AsyncIterator(c)
    \/ \E i \in 1..Len(iterators) : IteratorNext(i)
    \/ Await

Spec == Init /\ [][Next]_vars


(***************************************************************************)
(* A caller that writes the public field `index` of a block it was given   *)
(* (the class declares `public index: number`, not readonly).              *)
(***************************************************************************)
\* The blocks handed out to callers: every stored block, never a genesis.
Exposed ==
    {b \in 1..Len(heap) :
        \E c \in 1..Len(chains) :
            \E p \in 1..Len(StoredBlocks(c)) : StoredBlocks(c)[p] = b}

\* block.index = v
SetIndex(b, v) ==
    /\ v # heap[b].index
    /\ heap' = [heap EXCEPT ![b].index = v]
    /\ written' = {w \in written : w.block # b}
                    \cup {[block |-> b, before |-> hash(heap, b)]}
    /\ UNCHANGED <<now, arrays, chains, iterators, pending, addLog, iterLog, created>>

NextTamper ==
    \/ Next
    \/ \E b \in Exposed, v \in IndexWrites : SetIndex(b, v)

SpecTamper == Init /\ [][NextTamper]_vars

(***************************************************************************)
(* The constructor of BlockChainBlock called directly, with an explicit    *)
(* instant: blocks with any index, payload, predecessor and time.          *)
(***************************************************************************)
Construct(idx, buffer, prev, nowMs) ==
    /\ Len(heap) < MaxConstructed
    /\ heap' = Append(heap, BlockChainBlock(idx, buffer, prev, nowMs))
    /\ created' = Append(created, nowMs)
    /\ UNCHANGED <<now, arrays, chains, iterators, pending, addLog, iterLog, written>>

NextConstruct ==
    \E idx \in ConstructIndexes, buffer \in ConstructPayloads,
       prev \in 0..Len(heap), nowMs \in ConstructInstants :
        Construct(idx, buffer, prev, nowMs)

SpecConstruct == Init /\ [][NextConstruct]_vars

(***************************************************************************)
(* A caller that drives an iterator by hand: it calls next() whether or    *)
(* not done has been reported, and without awaiting the call before.       *)
(***************************************************************************)
TraverseNext(i) ==
    /\ Len(pending) < MaxPending
    /\ iterators[i].cursorIndex < MaxCursor
    /\ NextBody(i)

NextTraverse ==
    \/ CreateNewBlockChain
    \/ \E c \in 1..Len(chains), payload \in Payloads : AddBlock(c, payload)
    \/ \E c \in 1..Len(chains) : AsyncIterator(c)
    \/ \E i \in 1..Len(iterators) : TraverseNext(i)
    \/ Await

SpecTraverse == Init /\ [][NextTraverse]_vars


(***************************************************************************)
(* What the history says, for the properties below.                        *)
(***************************************************************************)
\* The addBlock calls made on chain c, as positions of addLog, in order.
CallsOn(c) == {n \in 1..Len(addLog) : addLog[n].chain = c}

\* How many addBlock calls were made on the chain of call n before it.
CallsBefore(n) == Cardinality({m \in CallsOn(addLog[n].chain) : m < n})

\* The block that was the tail when call n was made: what the call before
\* it on the same chain returned, the genesis block for a first call.
TailBefore(n) ==
    IF CallsBefore(n) = 0 THEN chains[addLog[n].chain].genesisBlock
    ELSE LET m == CHOOSE m \in CallsOn(addLog[n].chain) :
                      m < n /\ CallsBefore(m) = CallsBefore(n) - 1
         IN  addLog[m].result

\* The genesis blocks.
GenesisBlocks == {chains[c].genesisBlock : c \in 1..Len(chains)}

(***************************************************************************)
(* C1. Chain linkage: in the block list of every chain, each block after   *)
(* the first has the hash of the block before it as previousHash, and its  *)
(* index is its position (one more than the index of the block before).    *)
(***************************************************************************)
C1_ChainLinkage ==
    \A c \in 1..Len(chains) :
        LET blocks == StoredBlocks(c)
            hashOf == [i \in 1..Len(blocks) |-> hash(heap, blocks[i])]
            previousHashOf == [i \in 1..Len(blocks) |-> previousHash(heap, blocks[i])]
        IN  \A i \in 1..(Len(blocks) - 1) :
                /\ previousHashOf[i + 1] = hashOf[i]
                /\ heap[blocks[i + 1]].index = i
                /\ heap[blocks[i + 1]].index = heap[blocks[i]].index + 1

C1_Witness ==
    \E c \in 1..Len(chains) : Len(StoredBlocks(c)) = 3

(***************************************************************************)
(* C2. Genesis invariant, as claimed: the block of the first addBlock call *)
(* on a chain has index 0 and the empty string as previousHash.            *)
(***************************************************************************)
C2_GenesisAsClaimed ==
    \A n \in 1..Len(addLog) :
        CallsBefore(n) = 0 =>
            /\ heap[addLog[n].result].index = 0
            /\ previousHash(heap, addLog[n].result) = << >>

(***************************************************************************)
(* C2, amended. The block of the first addBlock call on a chain has index  *)
(* 0 and, as previousHash, the hash of the chain's genesis block, which is *)
(* not the empty string; the genesis block is the one with an empty        *)
(* previousHash.                                                           *)
(***************************************************************************)
C2_Genesis ==
    \A n \in 1..Len(addLog) :
        CallsBefore(n) = 0 =>
            LET genesis == chains[addLog[n].chain].genesisBlock
                genesisHash == hash(heap, genesis)
            IN  /\ heap[addLog[n].result].index = 0
                /\ previousHash(heap, addLog[n].result) = genesisHash
                /\ genesisHash # << >>
                /\ previousHash(heap, genesis) = << >>

C2_Witness ==
    \E n \in 1..Len(addLog) :
        /\ CallsBefore(n) = 0
        /\ StoredBlocks(addLog[n].chain)[1] = addLog[n].result

(***************************************************************************)
(* C3. Complete traversal: an iteration started after k addBlock calls on  *)
(* its chain returns, call after call, the blocks with index 0 .. k-1 and  *)
(* from then on done; a genesis block is never among them.                 *)
(***************************************************************************)
C3_CompleteTraversal ==
    \A i \in 1..Len(iterLog) :
        LET k == iterLog[i].calls
            results == iterLog[i].results
        IN  \A j \in 1..Len(results) :
                IF j <= k
                THEN /\ results[j].done = FALSE
                     /\ results[j].value # undefined
                     /\ results[j].value \notin GenesisBlocks
                     /\ heap[results[j].value].index = j - 1
                ELSE /\ results[j].done = TRUE
                     /\ results[j].value = undefined

C3_Witness ==
    \E i \in 1..Len(iterLog) :
        /\ iterLog[i].calls = 2
        /\ Len(iterLog[i].results) = 3

(***************************************************************************)
(* C4. Snapshot isolation: whatever is appended after an iteration has     *)
(* started, its next() calls return the blocks the chain stored when it    *)
(* started, in that order, and then done.                                  *)
(***************************************************************************)
C4_SnapshotIsolation ==
    \A i \in 1..Len(iterLog) :
        LET snapshot == iterLog[i].blocks
            results == iterLog[i].results
        IN  \A j \in 1..Len(results) :
                /\ results[j].done = (j > Len(snapshot))
                /\ results[j].value = ArrayGet(snapshot, j - 1)

\* An addBlock call on the chain of an iteration that had started, then a
\* next() call that returns a block, then one that returns done.
C4_Witness ==
    \E i \in 1..Len(iterLog) :
        /\ Len(pending) = 2
        /\ pending[1].call = "addBlock"
        /\ pending[1].target = iterLog[i].chain
        /\ \A p \in 1..Len(iterLog[i].blocks) : iterLog[i].blocks[p] # pending[1].value
        /\ pending[2].call = "next"
        /\ pending[2].target = i
        /\ pending[2].done = TRUE
        /\ Len(iterLog[i].blocks) = 1
        /\ Len(iterLog[i].results) = 2

(***************************************************************************)
(* C5. Serialized appends: also while several addBlock calls are pending   *)
(* together, no two blocks of a chain have the same index and no two have  *)
(* the same predecessor.                                                   *)
(***************************************************************************)
C5_SerializedAppends ==
    \A c \in 1..Len(chains) :
        LET blocks == StoredBlocks(c)
        IN  \A p, q \in 1..Len(blocks) :
                p # q =>
                    /\ blocks[p] # blocks[q]
                    /\ heap[blocks[p]].index # heap[blocks[q]].index
                    /\ heap[blocks[p]].previousBlock # heap[blocks[q]].previousBlock

\* Two addBlock calls on one chain pending together.
C5_Witness ==
    /\ Len(pending) = 2
    /\ pending[1].call = "addBlock"
    /\ pending[2].call = "addBlock"
    /\ pending[1].target = pending[2].target


(***************************************************************************)
(* C6. Append-only frame: a call of addBlock leaves every block stored     *)
(* before it at its position, with the index, data, timestamp,             *)
(* previousHash and hash it had.                                           *)
(***************************************************************************)
\* What the accessors of block b answer in heap h.
BlockView(h, b) ==
    <<h[b].index, data(h, b), timestamp(h, b), previousHash(h, b), hash(h, b)>>

C6_AppendOnlyFrame ==
    [][Len(addLog') = Len(addLog) + 1 =>
        \A c \in 1..Len(chains) :
            /\ Len(arrays'[chains'[c].blocks]) >= Len(arrays[chains[c].blocks])
            /\ \A p \in 1..Len(arrays[chains[c].blocks]) :
                 LET b == arrays[chains[c].blocks][p]
                 IN  /\ arrays'[chains'[c].blocks][p] = b
                     /\ BlockView(heap', b) = BlockView(heap, b)]_vars

\* Two calls of addBlock on one chain, at different times.
C6_Witness ==
    \E c \in 1..Len(chains) :
        /\ Len(StoredBlocks(c)) >= 2
        /\ timestamp(heap, StoredBlocks(c)[1]) # timestamp(heap, StoredBlocks(c)[2])

(***************************************************************************)
(* C7. Tamper-evidence: once the index of a stored block has been          *)
(* overwritten, the hash of that block is no longer what it was and, for   *)
(* every block after it in the chain, previousHash differs from the hash   *)
(* of the block before.                                                    *)
(***************************************************************************)
C7_TamperEvidence ==
    \A w \in written :
        /\ hash(heap, w.block) # w.before
        /\ \A c \in 1..Len(chains) :
             LET blocks == StoredBlocks(c)
             IN  \A p, q \in 1..Len(blocks) :
                     (blocks[p] = w.block /\ q > p) =>
                         previousHash(heap, blocks[q]) # hash(heap, blocks[q - 1])

(***************************************************************************)
(* C8. Hash determinism and sensitivity: two blocks have the same hash if  *)
(* and only if they have the same index, payload, previousHash and         *)
(* timestamp.                                                              *)
(***************************************************************************)
SameHashInputs(a, b) ==
    /\ heap[a].index = heap[b].index
    /\ heap[a].data = heap[b].data
    /\ previousHash(heap, a) = previousHash(heap, b)
    /\ timestamp(heap, a) = timestamp(heap, b)

C8_HashDeterminismSensitivity ==
    LET hashOf == [a \in 1..Len(heap) |-> hash(heap, a)]
        previousHashOf == [a \in 1..Len(heap) |-> previousHash(heap, a)]
    IN  \A a, b \in 1..Len(heap) :
            (hashOf[a] = hashOf[b]) <=>
                /\ heap[a].index = heap[b].index
                /\ heap[a].data = heap[b].data
                /\ previousHashOf[a] = previousHashOf[b]
                /\ timestamp(heap, a) = timestamp(heap, b)

\* Two blocks that differ in previousHash alone (one has the other as its
\* predecessor), and so in their hash.
C8_Witness ==
    \E a, b \in 1..Len(heap) :
        /\ heap[b].previousBlock = a
        /\ heap[b].index = heap[a].index
        /\ heap[b].data = heap[a].data
        /\ timestamp(heap, b) = timestamp(heap, a)
        /\ previousHash(heap, b) # previousHash(heap, a)
        /\ ~SameHashInputs(a, b)
        /\ hash(heap, b) # hash(heap, a)

(***************************************************************************)
(* C9. Append result: the k+1-st call of addBlock on a chain returns a     *)
(* block with index k, with the tail at the time of the call (the genesis  *)
(* block when k = 0) as predecessor and with the payload of the call; the  *)
(* block is stored at position k, the chain holds as many blocks as calls  *)
(* were made, and an iteration started after the call and before the next  *)
(* one returns that block last.                                            *)
(***************************************************************************)
C9_AppendResult ==
    /\ \A n \in 1..Len(addLog) :
         LET r == addLog[n].result
             k == CallsBefore(n)
         IN  /\ heap[r].index = k
             /\ heap[r].previousBlock = TailBefore(n)
             /\ heap[r].data = addLog[n].payload
             /\ Len(StoredBlocks(addLog[n].chain)) >= k + 1
             /\ ArrayGet(StoredBlocks(addLog[n].chain), k) = r
    /\ \A c \in 1..Len(chains) :
         Len(StoredBlocks(c)) = Cardinality(CallsOn(c))
    /\ \A i \in 1..Len(iterLog) :
         \A n \in CallsOn(iterLog[i].chain) :
            CallsBefore(n) + 1 = iterLog[i].calls =>
                \A j \in 1..Len(iterLog[i].results) :
                    /\ j = iterLog[i].calls =>
                           iterLog[i].results[j] =
                               [done |-> FALSE, value |-> addLog[n].result]
                    /\ j > iterLog[i].calls => iterLog[i].results[j].done

\* An iteration started after the second call on its chain has returned the
\* block of that call.
C9_Witness ==
    \E i \in 1..Len(iterLog) :
        \E n \in CallsOn(iterLog[i].chain) :
            /\ CallsBefore(n) = 1
            /\ iterLog[i].calls = 2
            /\ Len(iterLog[i].results) >= 2
            /\ iterLog[i].results[2].value = addLog[n].result

(***************************************************************************)
(* C10. Payload round-trip: decoding the data of the block of any          *)
(* addBlock call gives the payload of that call, also after later calls.   *)
(***************************************************************************)
C10_PayloadRoundTrip ==
    \A n \in 1..Len(addLog) :
        Base64Decode(data(heap, addLog[n].result)) = addLog[n].payload

\* The empty payload and a payload of five bytes, each followed by a later
\* call on the same chain.
C10_Witness ==
    \E n, m, l \in 1..Len(addLog) :
        /\ n < m /\ m < l
        /\ addLog[n].chain = addLog[m].chain
        /\ addLog[m].chain = addLog[l].chain
        /\ addLog[n].payload = << >>
        /\ Len(addLog[m].payload) = 5


(***************************************************************************)
(* C11. Timestamp value: the timestamp of a block constructed at the       *)
(* instant t (in ms) is the number of whole UNIX seconds of t, that is     *)
(* t \div 1000, at every read.                                             *)
(***************************************************************************)
C11_TimestampSeconds ==
    \A b \in 1..Len(heap) : timestamp(heap, b) = created[b] \div 1000


(***************************************************************************)
(* C12. Chain independence: a new chain starts empty; two chains never     *)
(* share their block list, a block or their genesis block; an iteration of *)
(* a chain returns only blocks appended to that chain; and a call of       *)
(* addBlock on one chain leaves the block list of every other chain, and   *)
(* the snapshot of every iteration of another chain, as they were.         *)
(***************************************************************************)
C12_NothingShared ==
    /\ \A c, d \in 1..Len(chains) :
         c # d =>
            /\ chains[c].blocks # chains[d].blocks
            /\ chains[c].genesisBlock # chains[d].genesisBlock
            /\ \A p \in 1..Len(StoredBlocks(c)) :
                 \A q \in 1..Len(StoredBlocks(d)) :
                    StoredBlocks(c)[p] # StoredBlocks(d)[q]
    /\ \A c \in 1..Len(chains) :
         \A i \in 1..Len(iterators) :
            chains[c].blocks # iterators[i].copyOfBlocks
    /\ \A i \in 1..Len(iterLog) :
         \A j \in 1..Len(iterLog[i].results) :
            iterLog[i].results[j].value # undefined =>
                \E n \in CallsOn(iterLog[i].chain) :
                    addLog[n].result = iterLog[i].results[j].value

C12_OthersUntouched ==
    /\ Len(chains') = Len(chains) + 1 =>
          arrays'[chains'[Len(chains')].blocks] = << >>
    /\ Len(addLog') = Len(addLog) + 1 =>
          /\ \A d \in 1..Len(chains) :
               d # addLog'[Len(addLog')].chain =>
                  arrays'[chains'[d].blocks] = arrays[chains[d].blocks]
          /\ \A i \in 1..Len(iterators) :
               iterLog[i].chain # addLog'[Len(addLog')].chain =>
                  arrays'[iterators'[i].copyOfBlocks]
                      = arrays[iterators[i].copyOfBlocks]

C12_ChainIndependence == []C12_NothingShared /\ [][C12_OthersUntouched]_vars

\* A call of addBlock on the first chain, then an iteration of the second
\* chain that reports done at once.
C12_Witness ==
    /\ Len(chains) = 2
    /\ Len(StoredBlocks(1)) = 1
    /\ Len(StoredBlocks(2)) = 0
    /\ Len(pending) = 2
    /\ pending[1].call = "addBlock" /\ pending[1].target = 1
    /\ pending[2].call = "next" /\ pending[2].done = TRUE
    /\ iterLog[pending[2].target].chain = 2

(***************************************************************************)
(* C13. Monotone history: every step leaves the block list of every chain  *)
(* as it was or appends one block to it, so no block is removed, moved or  *)
(* replaced; the snapshot of every iteration is a prefix of the list of    *)
(* its chain, and of two iterations of one chain the snapshot of the one   *)
(* started first is a prefix of the snapshot of the other.                 *)
(***************************************************************************)
IsPrefix(s, t) == Len(s) <= Len(t) /\ SubSeq(t, 1, Len(s)) = s

C13_SnapshotsNested ==
    /\ \A i \in 1..Len(iterators) :
         IsPrefix(arrays[iterators[i].copyOfBlocks], StoredBlocks(iterLog[i].chain))
    /\ \A i, j \in 1..Len(iterators) :
         (i < j /\ iterLog[i].chain = iterLog[j].chain) =>
            IsPrefix(arrays[iterators[i].copyOfBlocks],
                     arrays[iterators[j].copyOfBlocks])

C13_OnlyAppend ==
    \A c \in 1..Len(chains) :
        /\ IsPrefix(StoredBlocks(c), arrays'[chains'[c].blocks])
        /\ Len(arrays'[chains'[c].blocks]) <= Len(StoredBlocks(c)) + 1

C13_MonotoneHistory == []C13_SnapshotsNested /\ [][C13_OnlyAppend]_vars

\* Two iterations of one chain with a call of addBlock between them: the
\* second has a block the first has not, and both have reported.
C13_Witness ==
    /\ Len(iterators) = 2
    /\ iterLog[1].chain = iterLog[2].chain
    /\ Len(arrays[iterators[1].copyOfBlocks]) = 0
    /\ Len(arrays[iterators[2].copyOfBlocks]) = 1
    /\ Len(iterLog[1].results) = 1 /\ iterLog[1].results[1].done
    /\ Len(iterLog[2].results) = 1 /\ ~iterLog[2].results[1].done

(***************************************************************************)
(* C14. previousHash definition: the previousHash of a block is the hash   *)
(* of its predecessor when it has one and the empty string when it has     *)
(* none; the blocks without predecessor are the genesis blocks; and the    *)
(* previousHash of the block a call of addBlock returned is the hash of    *)
(* the block, or genesis block, that was the tail when the call was made.  *)
(***************************************************************************)
C14_PreviousHashDefinition ==
    LET hashOf == [b \in 1..Len(heap) |-> hash(heap, b)]
        previousHashOf == [b \in 1..Len(heap) |-> previousHash(heap, b)]
    IN  /\ \A b \in 1..Len(heap) :
             /\ (heap[b].previousBlock = undefined) = (b \in GenesisBlocks)
             /\ previousHashOf[b] =
                    IF heap[b].previousBlock = undefined THEN << >>
                    ELSE hashOf[heap[b].previousBlock]
        /\ \A n \in 1..Len(addLog) :
             /\ heap[addLog[n].result].previousBlock = TailBefore(n)
             /\ previousHashOf[addLog[n].result] = hashOf[TailBefore(n)]
        /\ \A c \in 1..Len(chains) :
             \A p \in 1..Len(StoredBlocks(c)) :
                \E n \in CallsOn(c) : addLog[n].result = StoredBlocks(c)[p]

\* A third call on a chain: the tail it found is a stored block, the one
\* the first call found is the genesis block.
C14_Witness ==
    \E n \in 1..Len(addLog) :
        /\ CallsBefore(n) = 2
        /\ TailBefore(n) \notin GenesisBlocks
        /\ previousHash(heap, addLog[n].result) # << >>
        /\ previousHash(heap, chains[addLog[n].chain].genesisBlock) = << >>

(***************************************************************************)
(* C15. Finite, restartable traversal: of the next() calls made on an      *)
(* iterator over a snapshot of k blocks, the first k report done = false   *)
(* with the block at their position and every later one reports           *)
(* done = true with no block; an iterator starts at position 0; and a      *)
(* next() call advances its own iterator by one position and no other.     *)
(***************************************************************************)
C15_DoneAfterSnapshot ==
    \A i \in 1..Len(iterators) :
        LET copyOfBlocks == arrays[iterators[i].copyOfBlocks]
            results == iterLog[i].results
        IN  /\ iterators[i].cursorIndex = Len(results)
            /\ \A j \in 1..Len(results) :
                 /\ results[j].done = (j > Len(copyOfBlocks))
                 /\ results[j].value =
                        IF j > Len(copyOfBlocks) THEN undefined
                        ELSE copyOfBlocks[j]

C15_OwnPosition ==
    /\ Len(iterators') = Len(iterators) + 1 =>
          /\ iterators'[Len(iterators')].cursorIndex = 0
          /\ \A i \in 1..Len(iterators) : iterators'[i] = iterators[i]
    /\ \A i \in 1..Len(iterators) :
          iterators'[i].cursorIndex # iterators[i].cursorIndex =>
             /\ iterators'[i].cursorIndex = iterators[i].cursorIndex + 1
             /\ \A j \in 1..Len(iterators) :
                  j # i => iterators'[j] = iterators[j]

C15_FiniteRestartable == []C15_DoneAfterSnapshot /\ [][C15_OwnPosition]_vars

\* An iterator over one block that was called three times, and a second
\* iterator of the same chain that delivers the block again.
C15_Witness ==
    /\ Len(iterators) = 2
    /\ iterLog[1].chain = iterLog[2].chain
    /\ Len(arrays[iterators[1].copyOfBlocks]) = 1
    /\ Len(iterLog[1].results) = 3
    /\ ~iterLog[1].results[1].done
    /\ iterLog[1].results[2].done /\ iterLog[1].results[3].done
    /\ iterators[2].cursorIndex = 1
    /\ iterLog[2].results[1] = iterLog[1].results[1]

(***************************************************************************)
(* C16. Hash evaluation terminates: reading hash on the stored block with  *)
(* index i reads hash on the blocks with index i-1, ..., 0 and then on the *)
(* genesis block, each once, and stops there; every predecessor reference  *)
(* leads to a block constructed earlier, so the references form no cycle.  *)
(***************************************************************************)
RECURSIVE Visited(_, _, _)
\* The blocks on which hash is read when it is read on block b, in order:
\* get hash() reads previousHash, which reads hash on the predecessor.  The
\* walk is cut after `reads` blocks, so that it is defined on a cycle too.
Visited(h, b, reads) ==
    IF b = undefined \/ reads = 0 THEN << >>
    ELSE <<b>> \o Visited(h, h[b].previousBlock, reads - 1)

C16_HashTerminates ==
    /\ \A b \in 1..Len(heap) :
         heap[b].previousBlock = undefined \/ heap[b].previousBlock < b
    /\ \A c \in 1..Len(chains) :
         \A p \in 1..Len(StoredBlocks(c)) :
            LET visited == Visited(heap, StoredBlocks(c)[p], Len(heap) + 1)
            IN  /\ Len(visited) = p + 1
                /\ \A q \in 1..p :
                     /\ visited[q] = StoredBlocks(c)[p - q + 1]
                     /\ heap[visited[q]].index = p - q
                /\ visited[p + 1] = chains[c].genesisBlock
                /\ \A q, r \in 1..(p + 1) : q # r => visited[q] # visited[r]

\* A chain of three stored blocks: the walk from the last visits four.
C16_Witness ==
    \E c \in 1..Len(chains) :
        /\ Len(StoredBlocks(c)) = 3
        /\ Len(Visited(heap, StoredBlocks(c)[3], Len(heap) + 1)) = 4

(***************************************************************************)
(* C17. Concurrent next() calls: the calls made on an iterator take the    *)
(* positions 0, 1, 2, ... in call order, whether or not the calls before   *)
(* have been awaited, so the calls within the snapshot return its blocks   *)
(* one each, none twice and none skipped; the results reach the caller in  *)
(* call order, and those not yet received are the pending ones, in order.  *)
(***************************************************************************)
\* The results of the next() calls on iterator i that wait for the caller.
PendingResults(i) ==
    LET mine == SelectSeq(pending,
                    LAMBDA e : e.call = "next" /\ e.target = i)
    IN  [j \in 1..Len(mine) |-> [done |-> mine[j].done, value |-> mine[j].value]]

C17_ConcurrentNext ==
    \A i \in 1..Len(iterators) :
        LET copyOfBlocks == arrays[iterators[i].copyOfBlocks]
            results == iterLog[i].results
            received == iterLog[i].received
        IN  /\ \A j \in 1..Len(results) :
                 j <= Len(copyOfBlocks) =>
                    results[j] = [done |-> FALSE, value |-> copyOfBlocks[j]]
            /\ \A j, k \in 1..Len(results) :
                 (j < k /\ k <= Len(copyOfBlocks)) =>
                    results[j].value # results[k].value
            /\ received \o PendingResults(i) = results

\* Two calls on one iterator, neither awaited yet: the first holds the
\* first block of the snapshot and the second the second.
C17_Witness ==
    /\ Len(pending) = 2
    /\ pending[1].call = "next" /\ pending[2].call = "next"
    /\ pending[1].target = pending[2].target
    /\ ~pending[1].done /\ ~pending[2].done
    /\ pending[1].value = arrays[iterators[pending[1].target].copyOfBlocks][1]
    /\ pending[2].value = arrays[iterators[pending[1].target].copyOfBlocks][2]
    /\ pending[1].value # pending[2].value

=============================================================================
